---- MODULE Spec2Model ----
(***************************************************************************)
(* The calculator component (SimpleCalculator) as a state machine.         *)
(*                                                                         *)
(* Strings are sequences of one-character strings, so that appending,      *)
(* includes('.'), parseFloat and Number.toString are real conversions.     *)
(*                                                                         *)
(* Numbers are exact decimals <<m, s>> standing for m / 10^s, in normal    *)
(* form (m without trailing zero, so s < 0 for 50 = <<5, -1>>).  The       *)
(* arithmetic is exact decimal arithmetic on the values with               *)
(* |m| <= MaxMant and -MaxTens <= s <= MaxScale; NaR marks a result        *)
(* outside them (an inexact quotient such as 1/3 included), and a click    *)
(* that would store or show NaR is not taken (see InBounds).  IEEE         *)
(* doubles agree with this on what parseFloat reads from the display and   *)
(* on whether a divisor is 0; the rounding noise a double sum carries in   *)
(* currentValue (0.2 + 0.4 = 0.6000000000000001) is not modelled.  NaN is  *)
(* JavaScript's NaN; Infinity is not reached within the bounds.            *)
(*                                                                         *)
(* lastAction, prev and typed are history variables: the last click, what  *)
(* the control fields were before it, and the digits clicked so far while  *)
(* nothing but digits has been clicked.                                    *)
(***************************************************************************)
EXTENDS Integers, Sequences, FiniteSets, TLC

VARIABLES displayValue, currentValue, pendingOperator, awaitingNextValue,
          hasError, lastAction, prev, typed

fields == <<displayValue, currentValue, pendingOperator, awaitingNextValue, hasError>>
vars == <<displayValue, currentValue, pendingOperator, awaitingNextValue,
          hasError, lastAction, prev, typed>>

(* ------------------------------ bounds --------------------------------- *)
\* largest |m| of an explored number
MaxMant == 9
\* largest scale s (digits after the point) of an explored number
MaxScale == 1
\* largest number of trailing zeros of an explored whole number
MaxTens == 1
\* longest display that Digit / Decimal may produce by typing
MaxLen == 3
\* most Digit actions recorded from the initial state
MaxTyped == 4

(* --------------------------- program constants ------------------------- *)
DEFAULT_DISPLAY == <<"0">>
ERROR_DISPLAY == <<"E", "r", "r", "o", "r">>
PRECISION == 12
null == <<>>
NoOperator == "null"
Digits == {"0", "2", "3", "4", "5"}
Operators == {"+", "-", "*", "/"}

(* ------------------------------ numbers -------------------------------- *)
NaN == <<0, 999>>
NaR == <<0, 998>>
DigitChars == <<"0", "1", "2", "3", "4", "5", "6", "7", "8", "9">>
AllDigits == {DigitChars[i] : i \in 1..10}
DigitVal(c) == (CHOOSE i \in 1..10 : DigitChars[i] = c) - 1

Abs(n) == IF n < 0 THEN -n ELSE n
Max(a, b) == IF a >= b THEN a ELSE b

RECURSIVE Pow10(_)
Pow10(k) == IF k <= 0 THEN 1 ELSE 10 * Pow10(k - 1)

RECURSIVE NumDigits(_)
NumDigits(n) == IF n < 10 THEN 1 ELSE 1 + NumDigits(n \div 10)

\* the normal form: no trailing zero in m, and zero is <<0, 0>>
RECURSIVE Norm(_, _)
Norm(m, s) ==
    IF m = 0 THEN <<0, 0>>
    ELSE IF m % 10 = 0 THEN Norm(m \div 10, s - 1)
    ELSE <<m, s>>

IsNum(x) == x # NaN /\ x # NaR /\ x # null
Fits(x) == IsNum(x) /\ Abs(x[1]) <= MaxMant /\ x[2] <= MaxScale /\ -x[2] <= MaxTens
\* largest power of ten a mantissa is multiplied by; a larger shift leaves MaxMant
ShiftLimit == 4

Lift(r) == IF Fits(r) THEN r ELSE NaR

Add(a, b) ==
    IF a = NaN \/ b = NaN THEN NaN
    ELSE IF ~Fits(a) \/ ~Fits(b) THEN NaR
    ELSE LET s == Max(a[2], b[2])
             da == s - a[2]
             db == s - b[2]
         IN  IF a[1] = 0 THEN b
             ELSE IF b[1] = 0 THEN a
             ELSE IF da > ShiftLimit \/ db > ShiftLimit THEN NaR
             ELSE Lift(Norm(a[1] * Pow10(da) + b[1] * Pow10(db), s))

Neg(a) == IF IsNum(a) THEN <<-a[1], a[2]>> ELSE a

Mul(a, b) ==
    IF a = NaN \/ b = NaN THEN NaN
    ELSE IF ~Fits(a) \/ ~Fits(b) THEN NaR
    ELSE Lift(Norm(a[1] * b[1], a[2] + b[2]))

\* a / b for b # 0: the exact quotient when it is a decimal within ShiftLimit
\* further digits, NaR otherwise (1/3 is not explored)
Div(a, b) ==
    IF a = NaN \/ b = NaN THEN NaN
    ELSE IF ~Fits(a) \/ ~IsNum(b) \/ b[1] = 0 THEN NaR
    ELSE IF a[1] = 0 THEN <<0, 0>>
    ELSE LET ks == {k \in 0..ShiftLimit : (Abs(a[1]) * Pow10(k)) % Abs(b[1]) = 0}
         IN  IF ks = {} THEN NaR
             ELSE LET k == CHOOSE x \in ks : \A y \in ks : x <= y
                      q == (Abs(a[1]) * Pow10(k)) \div Abs(b[1])
                      sg == IF (a[1] < 0) = (b[1] < 0) THEN 1 ELSE -1
                  IN  Lift(Norm(sg * q, a[2] + k - b[2]))

(* ------------------------------ strings -------------------------------- *)
RECURSIVE IntToChars(_)
IntToChars(n) ==
    IF n < 10 THEN <<DigitChars[n + 1]>>
    ELSE Append(IntToChars(n \div 10), DigitChars[(n % 10) + 1])

RECURSIVE Zeros(_)
Zeros(k) == IF k <= 0 THEN <<>> ELSE <<"0">> \o Zeros(k - 1)

\* String.prototype.includes for a one-character needle
Includes(str, c) == \E i \in 1..Len(str) : str[i] = c

CountChar(str, c) == Cardinality({i \in 1..Len(str) : str[i] = c})

\* index after the run of decimal digits of str that starts at i
RECURSIVE ScanDigits(_, _)
ScanDigits(str, i) ==
    IF i <= Len(str) /\ str[i] \in AllDigits THEN ScanDigits(str, i + 1) ELSE i

\* value of the decimal digits str[i .. j-1]
RECURSIVE DigitsValue(_, _, _)
DigitsValue(str, i, j) ==
    IF j <= i THEN 0 ELSE 10 * DigitsValue(str, i, j - 1) + DigitVal(str[j - 1])

\* Number.prototype.toString (radix 10) of a finite number: n is the position
\* of the decimal point, and the exponent form is used outside 1e-6 .. 1e21
NumberToString(x) ==
    LET m == Abs(x[1])
        s == x[2]
        D == IntToChars(m)
        k == Len(D)
        n == k - s
        sign == IF x[1] < 0 THEN <<"-">> ELSE <<>>
        lead == <<D[1]>> \o (IF k > 1 THEN <<".">> \o SubSeq(D, 2, k) ELSE <<>>)
    IN  IF m = 0 THEN <<"0">>
        ELSE IF n > 21 THEN sign \o lead \o <<"e", "+">> \o IntToChars(n - 1)
        ELSE IF s <= 0 THEN sign \o D \o Zeros(-s)
        ELSE IF n > 0 THEN sign \o SubSeq(D, 1, n) \o <<".">> \o SubSeq(D, n + 1, k)
        ELSE IF n > -6 THEN sign \o <<"0", ".">> \o Zeros(-n) \o D
        ELSE sign \o lead \o <<"e", "-">> \o IntToChars(1 - n)

\* Number.prototype.toPrecision(p) read back by parseFloat: x rounded to p
\* significant digits (half away from zero)
ToPrecision(x, p) ==
    IF ~IsNum(x) THEN x
    ELSE LET m == Abs(x[1])
             drop == NumDigits(m) - p
             r == (m + 5 * Pow10(drop - 1)) \div Pow10(drop)
             sg == IF x[1] < 0 THEN -1 ELSE 1
         IN  IF drop <= 0 THEN x ELSE Norm(sg * r, x[2] - drop)

\* the exponent part of a decimal literal at str[q ..], after the e
ExponentDigits(str, q) == DigitsValue(str, q, ScanDigits(str, q))

SignedExponent(str, q) ==
    IF q <= Len(str) /\ str[q] = "-" THEN -ExponentDigits(str, q + 1)
    ELSE IF q <= Len(str) /\ str[q] = "+" THEN ExponentDigits(str, q + 1)
    ELSE ExponentDigits(str, q)

\* the exponent of the literal whose mantissa ends before p (0 without one)
Exponent(str, p) ==
    IF p <= Len(str) /\ str[p] \in {"e", "E"} THEN SignedExponent(str, p + 1) ELSE 0

\* the literal with integer digits str[start .. iEnd-1] and fraction digits
\* str[fracStart .. fEnd-1]; NaN when it has no digit at all
ParseLiteral(str, start, iEnd, fracStart, fEnd) ==
    IF iEnd = start /\ fEnd = fracStart THEN NaN
    ELSE Norm((IF start = 2 THEN -1 ELSE 1)
                 * (DigitsValue(str, start, iEnd) * Pow10(fEnd - fracStart)
                      + DigitsValue(str, fracStart, fEnd)),
              (fEnd - fracStart) - Exponent(str, fEnd))

ParseFraction(str, start, iEnd) ==
    IF iEnd <= Len(str) /\ str[iEnd] = "."
        THEN ParseLiteral(str, start, iEnd, iEnd + 1, ScanDigits(str, iEnd + 1))
        ELSE ParseLiteral(str, start, iEnd, iEnd, iEnd)

\* the global parseFloat: the longest prefix that is a decimal literal
parseFloat(str) ==
    ParseFraction(str, IF Len(str) >= 1 /\ str[1] = "-" THEN 2 ELSE 1,
                  ScanDigits(str, IF Len(str) >= 1 /\ str[1] = "-" THEN 2 ELSE 1))

(* ------------------------- SimpleCalculator ---------------------------- *)
\* the component's five fields
This ==
    [displayValue |-> displayValue, currentValue |-> currentValue,
     pendingOperator |-> pendingOperator, awaitingNextValue |-> awaitingNextValue,
     hasError |-> hasError]

\* field initialisers of the class
InitialFields ==
    [displayValue |-> DEFAULT_DISPLAY, currentValue |-> null,
     pendingOperator |-> NoOperator, awaitingNextValue |-> FALSE,
     hasError |-> FALSE]

\* a number operand as arithmetic sees it (null converts to 0)
ToNumber(x) == IF x = null THEN <<0, 0>> ELSE x

NaRDisplay == <<"?">>

\* Number.isFinite(result) ? result.toString() : DEFAULT_DISPLAY
finiteToString(result) ==
    IF result = NaR THEN NaRDisplay
    ELSE IF result # NaN THEN NumberToString(result)
    ELSE DEFAULT_DISPLAY

formatResult(value) == finiteToString(ToPrecision(ToNumber(value), PRECISION))

\* mutant: the division does not test its divisor
performCalculation_noZeroCheck(firstValue, secondValue, operator) ==
    CASE operator = "+" -> Add(ToNumber(firstValue), secondValue)
      [] operator = "-" -> Add(ToNumber(firstValue), Neg(secondValue))
      [] operator = "*" -> Mul(ToNumber(firstValue), secondValue)
      [] operator = "/" -> IF secondValue = <<0, 0>> THEN NaN
                           ELSE Div(ToNumber(firstValue), secondValue)
      [] OTHER -> secondValue

performCalculation(firstValue, secondValue, operator) ==
    CASE operator = "+" -> Add(ToNumber(firstValue), secondValue)
      [] operator = "-" -> Add(ToNumber(firstValue), Neg(secondValue))
      [] operator = "*" -> Mul(ToNumber(firstValue), secondValue)
      [] operator = "/" -> IF secondValue = <<0, 0>> THEN null
                           ELSE Div(ToNumber(firstValue), secondValue)
      [] OTHER -> secondValue

\* mutant: the reset leaves the latch set
resetCalculator_keepsError(s) ==
    [s EXCEPT !.displayValue = DEFAULT_DISPLAY, !.currentValue = null,
              !.pendingOperator = NoOperator, !.awaitingNextValue = FALSE]

resetCalculator(s) ==
    [s EXCEPT !.displayValue = DEFAULT_DISPLAY, !.currentValue = null,
              !.pendingOperator = NoOperator, !.awaitingNextValue = FALSE,
              !.hasError = FALSE]

\* mutant: the error path leaves the operator staged
signalError_keepsOperator(s) ==
    [s EXCEPT !.displayValue = ERROR_DISPLAY, !.currentValue = null,
              !.awaitingNextValue = FALSE, !.hasError = TRUE]

\* mutant: the error path leaves the display as it was
signalError_keepsDisplay(s) ==
    [s EXCEPT !.currentValue = null, !.pendingOperator = NoOperator,
              !.awaitingNextValue = FALSE, !.hasError = TRUE]

signalError(s) ==
    [s EXCEPT !.displayValue = ERROR_DISPLAY, !.currentValue = null,
              !.pendingOperator = NoOperator, !.awaitingNextValue = FALSE,
              !.hasError = TRUE]

\* mutant: a digit is ignored while latched, as the operators are
inputDigit_ignoredWhileLatched(s, digit) ==
    IF s.hasError THEN s
    ELSE IF s.awaitingNextValue
        THEN [s EXCEPT !.displayValue = <<digit>>, !.awaitingNextValue = FALSE]
    ELSE IF s.displayValue = DEFAULT_DISPLAY
        THEN [s EXCEPT !.displayValue = <<digit>>]
    ELSE [s EXCEPT !.displayValue = s.displayValue \o <<digit>>]

\* mutant: a digit is appended to the default display too
inputDigit_keepsLeadingZero(s, digit) ==
    LET s1 == IF s.hasError THEN resetCalculator(s) ELSE s
    IN  IF s1.awaitingNextValue
            THEN [s1 EXCEPT !.displayValue = <<digit>>, !.awaitingNextValue = FALSE]
        ELSE [s1 EXCEPT !.displayValue = s1.displayValue \o <<digit>>]

inputDigit(s, digit) ==
    LET s1 == IF s.hasError THEN resetCalculator(s) ELSE s
    IN  IF s1.awaitingNextValue
            THEN [s1 EXCEPT !.displayValue = <<digit>>, !.awaitingNextValue = FALSE]
        ELSE IF s1.displayValue = DEFAULT_DISPLAY
            THEN [s1 EXCEPT !.displayValue = <<digit>>]
        ELSE [s1 EXCEPT !.displayValue = s1.displayValue \o <<digit>>]

\* mutant: the point is appended without looking for one
inputDecimal_alwaysAppends(s) ==
    LET s1 == IF s.hasError THEN resetCalculator(s) ELSE s
    IN  IF s1.awaitingNextValue
            THEN [s1 EXCEPT !.displayValue = <<"0", ".">>, !.awaitingNextValue = FALSE]
        ELSE [s1 EXCEPT !.displayValue = s1.displayValue \o <<".">>]

\* mutant: a second point starts the operand again
inputDecimal_restarts(s) ==
    LET s1 == IF s.hasError THEN resetCalculator(s) ELSE s
    IN  IF s1.awaitingNextValue \/ Includes(s1.displayValue, ".")
            THEN [s1 EXCEPT !.displayValue = <<"0", ".">>, !.awaitingNextValue = FALSE]
        ELSE [s1 EXCEPT !.displayValue = s1.displayValue \o <<".">>]

\* mutant: the point that starts an operand leaves the flag set
inputDecimal_keepsAwaiting(s) ==
    LET s1 == IF s.hasError THEN resetCalculator(s) ELSE s
    IN  IF s1.awaitingNextValue
            THEN [s1 EXCEPT !.displayValue = <<"0", ".">>]
        ELSE IF ~Includes(s1.displayValue, ".")
            THEN [s1 EXCEPT !.displayValue = s1.displayValue \o <<".">>]
        ELSE s1

inputDecimal(s) ==
    LET s1 == IF s.hasError THEN resetCalculator(s) ELSE s
    IN  IF s1.awaitingNextValue
            THEN [s1 EXCEPT !.displayValue = <<"0", ".">>, !.awaitingNextValue = FALSE]
        ELSE IF ~Includes(s1.displayValue, ".")
            THEN [s1 EXCEPT !.displayValue = s1.displayValue \o <<".">>]
        ELSE s1

\* the tail of handleOperator: stage the operator
stageOperator(s, operator) ==
    [s EXCEPT !.pendingOperator = operator, !.awaitingNextValue = TRUE]

\* mutant: the chained result is accumulated but not shown
chainResult_keepsDisplay(s, operator, result) ==
    IF result = null THEN signalError(s)
    ELSE stageOperator([s EXCEPT !.currentValue = result], operator)

\* handleOperator once the pending calculation has given result
chainResult(s, operator, result) ==
    IF result = null THEN signalError(s)
    ELSE stageOperator([s EXCEPT !.currentValue = result,
                                 !.displayValue = formatResult(result)], operator)

\* mutant: an operator pressed right after another is evaluated, not substituted
resolveOperator_noSubstitution(s, operator, inputValue) ==
    IF s.currentValue = null
        THEN stageOperator([s EXCEPT !.currentValue = inputValue], operator)
    ELSE IF s.pendingOperator # NoOperator
        THEN chainResult(s, operator,
                 performCalculation(s.currentValue, inputValue, s.pendingOperator))
    ELSE stageOperator([s EXCEPT !.currentValue = inputValue], operator)

\* mutant: a value accumulated without an operator is kept
resolveOperator_keepsBareValue(s, operator, inputValue) ==
    IF s.pendingOperator # NoOperator /\ s.awaitingNextValue
        THEN [s EXCEPT !.pendingOperator = operator]
    ELSE IF s.currentValue = null
        THEN stageOperator([s EXCEPT !.currentValue = inputValue], operator)
    ELSE IF s.pendingOperator # NoOperator
        THEN chainResult(s, operator,
                 performCalculation(s.currentValue, inputValue, s.pendingOperator))
    ELSE stageOperator(s, operator)

\* handleOperator once the display has been parsed
resolveOperator(s, operator, inputValue) ==
    IF s.pendingOperator # NoOperator /\ s.awaitingNextValue
        THEN [s EXCEPT !.pendingOperator = operator]
    ELSE IF s.currentValue = null
        THEN stageOperator([s EXCEPT !.currentValue = inputValue], operator)
    ELSE IF s.pendingOperator # NoOperator
        THEN chainResult(s, operator,
                 performCalculation(s.currentValue, inputValue, s.pendingOperator))
    ELSE stageOperator([s EXCEPT !.currentValue = inputValue], operator)

handleOperator(s, operator) ==
    IF s.hasError THEN s
    ELSE resolveOperator(s, operator, parseFloat(s.displayValue))

\* mutant: equals leaves the accumulated value in place
finishEquals_keepsValue(s, result) ==
    IF result = null THEN signalError(s)
    ELSE [s EXCEPT !.displayValue = formatResult(result),
                   !.pendingOperator = NoOperator,
                   !.awaitingNextValue = FALSE]

\* mutant: equals leaves the operator staged
finishEquals_keepsOperator(s, result) ==
    IF result = null THEN signalError(s)
    ELSE [s EXCEPT !.displayValue = formatResult(result),
                   !.currentValue = null,
                   !.awaitingNextValue = FALSE]

\* handleEquals once the pending calculation has given result
finishEquals(s, result) ==
    IF result = null THEN signalError(s)
    ELSE [s EXCEPT !.displayValue = formatResult(result),
                   !.currentValue = null,
                   !.pendingOperator = NoOperator,
                   !.awaitingNextValue = FALSE]

\* mutant: equals does not look at awaitingNextValue
handleEquals_ignoresAwaiting(s) ==
    IF s.hasError \/ s.pendingOperator = NoOperator THEN s
    ELSE finishEquals(s, performCalculation(s.currentValue,
                                            parseFloat(s.displayValue),
                                            s.pendingOperator))

handleEquals(s) ==
    IF s.hasError \/ s.pendingOperator = NoOperator \/ s.awaitingNextValue THEN s
    ELSE finishEquals(s, performCalculation(s.currentValue,
                                            parseFloat(s.displayValue),
                                            s.pendingOperator))

\* mutant: the sign toggle does not look at the latch
toggleSign_ignoresLatch(s) ==
    IF s.displayValue = DEFAULT_DISPLAY THEN s
    ELSE [s EXCEPT !.displayValue = formatResult(Neg(parseFloat(s.displayValue)))]

\* mutant: the accumulated value changes sign with the display
toggleSign_negatesValue(s) ==
    IF s.hasError \/ s.displayValue = DEFAULT_DISPLAY THEN s
    ELSE [s EXCEPT !.displayValue = formatResult(Neg(parseFloat(s.displayValue))),
                   !.currentValue = Neg(s.currentValue)]

toggleSign(s) ==
    IF s.hasError \/ s.displayValue = DEFAULT_DISPLAY THEN s
    ELSE [s EXCEPT !.displayValue = formatResult(Neg(parseFloat(s.displayValue)))]

\* mutant: the quotient is accumulated whether or not an operator is pending
storePercent_alwaysStores(s, result) ==
    [s EXCEPT !.displayValue = formatResult(result), !.currentValue = result]

\* applyPercent once the quotient has been computed
storePercent(s, result) ==
    IF s.pendingOperator = NoOperator
        THEN [s EXCEPT !.displayValue = formatResult(result), !.currentValue = result]
        ELSE [s EXCEPT !.displayValue = formatResult(result)]

\* mutant: the rescaled operand counts as entered
applyPercent_acceptsOperand(s) ==
    IF s.hasError THEN s
    ELSE [storePercent(s, Div(parseFloat(s.displayValue), <<1, -2>>))
             EXCEPT !.awaitingNextValue = FALSE]

applyPercent(s) ==
    IF s.hasError THEN s
    ELSE storePercent(s, Div(parseFloat(s.displayValue), <<1, -2>>))

\* the dispatch switch over the button's data-action
handleButtonClick(s, action, value) ==
    CASE action = "digit" -> inputDigit(s, value)
      [] action = "decimal" -> inputDecimal(s)
      [] action = "operator" -> handleOperator(s, value)
      [] action = "equals" -> handleEquals(s)
      [] action = "clear" -> resetCalculator(s)
      [] action = "toggleSign" -> toggleSign(s)
      [] action = "percent" -> applyPercent(s)
      [] OTHER -> s

(* ------------------------------ the machine ---------------------------- *)
\* typed, once an action other than a digit has been applied
NotOnlyDigits == <<"x">>

\* an accumulated value and the operand shown with it are explored values
\* (or NaN, which no bound excludes)
InBounds(s) ==
    /\ s.displayValue # NaRDisplay
    /\ s.currentValue \in {null, NaN} \/ Fits(s.currentValue)
    /\ s.currentValue # null =>
           parseFloat(s.displayValue) = NaN \/ Fits(parseFloat(s.displayValue))

\* what prev records of the state before the last click: the control fields,
\* whether a value was accumulated, and whether the click before it was of
\* the same kind as the last click
Control(s, repeated) ==
    [hasError |-> s.hasError, pendingOperator |-> s.pendingOperator,
     awaitingNextValue |-> s.awaitingNextValue, hasValue |-> s.currentValue # null,
     repeated |-> repeated]

Init ==
    /\ displayValue = InitialFields.displayValue
    /\ currentValue = InitialFields.currentValue
    /\ pendingOperator = InitialFields.pendingOperator
    /\ awaitingNextValue = InitialFields.awaitingNextValue
    /\ hasError = InitialFields.hasError
    /\ lastAction = [action |-> "none", value |-> ""]
    /\ prev = Control(InitialFields, FALSE)
    /\ typed = <<>>

\* the fields become s, and prev records what they were
Apply(s, repeated) ==
    /\ InBounds(s)
    /\ displayValue' = s.displayValue
    /\ currentValue' = s.currentValue
    /\ pendingOperator' = s.pendingOperator
    /\ awaitingNextValue' = s.awaitingNextValue
    /\ hasError' = s.hasError
    /\ prev' = Control(This, repeated)

\* one button click: the handler runs to completion on the fields
Click(action, value) ==
    Apply(handleButtonClick(This, action, value), action = lastAction.action)

\* the history records the click
Record(action, value) ==
    /\ lastAction' = [action |-> action, value |-> value]
    /\ typed' = IF action = "digit" /\ typed # NotOnlyDigits
                    THEN Append(typed, value) ELSE NotOnlyDigits

\* typing leaves the display within MaxLen characters, or as it was
TypedFits(s) == Len(s.displayValue) <= MaxLen \/ s.displayValue = displayValue

Digit ==
    \E d \in Digits :
        /\ typed # NotOnlyDigits => Len(typed) < MaxTyped
        /\ TypedFits(inputDigit(This, d))
        /\ Click("digit", d)
        /\ Record("digit", d)

Decimal ==
    /\ TypedFits(inputDecimal(This))
    /\ Click("decimal", "")
    /\ Record("decimal", "")

Operator ==
    \E op \in Operators :
        /\ Click("operator", op)
        /\ Record("operator", op)

Equals ==
    /\ Click("equals", "")
    /\ Record("equals", "")

Clear ==
    /\ Click("clear", "")
    /\ Record("clear", "")

ToggleSign ==
    /\ Click("toggleSign", "")
    /\ Record("toggleSign", "")

Percent ==
    /\ Click("percent", "")
    /\ Record("percent", "")

Next == Digit \/ Decimal \/ Operator \/ Equals \/ Clear \/ ToggleSign \/ Percent

Spec == Init /\ [][Next]_vars

(* ------------------------------ claims --------------------------------- *)
\* the fields after signalError
ErrorFields ==
    [displayValue |-> ERROR_DISPLAY, currentValue |-> null,
     pendingOperator |-> NoOperator, awaitingNextValue |-> FALSE, hasError |-> TRUE]

\* the fields of a calculator that shows str and has nothing staged
Showing(str) ==
    [displayValue |-> str, currentValue |-> null,
     pendingOperator |-> NoOperator, awaitingNextValue |-> FALSE, hasError |-> FALSE]

\* C1: in every reachable state, hasError implies that no value is accumulated
\* and no operator is pending.
C1_ErrorClearsStaging ==
    hasError => (currentValue = null /\ pendingOperator = NoOperator)

\* an error has just been signalled from a state with a value and an operator staged
C1_Witness ==
    hasError /\ ~prev.hasError /\ prev.hasValue /\ prev.pendingOperator # NoOperator

\* a pending division, entered operand 0, no latch
DivideByZeroPending ==
    /\ ~hasError
    /\ pendingOperator = "/"
    /\ ~awaitingNextValue
    /\ parseFloat(displayValue) = <<0, 0>>

\* C2: from a non-latched state with '/' pending, awaitingNextValue false and a
\* displayed operand that parses to 0, Equals and Operator(op) for every op end
\* in the error state ("Error", null, no operator, not awaiting, latched); the
\* operator pressed is not staged.
C2_DivisionByZero ==
    [][(DivideByZeroPending /\ lastAction'.action \in {"equals", "operator"})
          => This' = ErrorFields]_vars

\* an Operator click on a pending division has just raised the error
C2_Witness ==
    /\ hasError /\ ~prev.hasError
    /\ prev.pendingOperator = "/" /\ ~prev.awaitingNextValue
    /\ lastAction.action = "operator"

\* C3: while hasError holds, Operator, Equals, ToggleSign and Percent leave the
\* five fields unchanged, and hasError falls only by Clear, Digit or Decimal.
C3_ErrorLatch ==
    [][/\ (hasError /\ lastAction'.action \in {"operator", "equals", "toggleSign", "percent"})
            => UNCHANGED fields
       /\ (hasError /\ ~hasError')
            => lastAction'.action \in {"clear", "digit", "decimal"}]_vars

\* one of the four ignored clicks has been applied to the latched state
C3_Witness ==
    /\ hasError /\ prev.hasError
    /\ lastAction.action \in {"operator", "equals", "toggleSign", "percent"}

\* C4: in a latched state Digit(d) gives the state Clear followed by Digit(d)
\* gives, which shows d with nothing staged; Decimal likewise, showing "0.".
C4_EntryDismissesError ==
    [][/\ (hasError /\ lastAction'.action = "digit")
            => /\ This' = handleButtonClick(handleButtonClick(This, "clear", ""),
                                            "digit", lastAction'.value)
               /\ This' = Showing(<<lastAction'.value>>)
       /\ (hasError /\ lastAction'.action = "decimal")
            => /\ This' = handleButtonClick(handleButtonClick(This, "clear", ""),
                                            "decimal", "")
               /\ This' = Showing(<<"0", ".">>)]_vars

\* a digit has just been entered on the latched state
C4_Witness == ~hasError /\ prev.hasError /\ lastAction.action = "digit"

\* C5: after Clear, from any state, the fields are the initial ones: "0", null,
\* no operator, not awaiting, no error.
C5_ClearResets == lastAction.action = "clear" => This = Showing(<<"0">>)

\* Clear has just been applied to the latched state
C5_Witness == lastAction.action = "clear" /\ prev.hasError

\* the digit string without its leading zeros, "0" if nothing is left
RECURSIVE StripLeadingZeros(_)
StripLeadingZeros(ds) ==
    IF ds = <<>> THEN <<"0">>
    ELSE IF Head(ds) = "0" THEN StripLeadingZeros(Tail(ds))
    ELSE ds

\* C6: after any sequence of Digit clicks from the initial state (typed), the
\* display is the digits entered without leading zeros, "0" if all are 0, and
\* the other four fields keep their initial values.
C6_DigitEntry == typed # NotOnlyDigits => This = Showing(StripLeadingZeros(typed))

\* two zeros and then two more digits have been entered from the initial state
C6_Witness ==
    /\ typed # NotOnlyDigits /\ Len(typed) = 4
    /\ typed[1] = "0" /\ typed[2] = "0" /\ typed[3] # "0"

\* C7: in every reachable state the display holds at most one decimal point.
C7_OneDecimalPoint == CountChar(displayValue, ".") <= 1

\* Decimal has just been pressed on what Percent left (a value with no operator
\* pending) and found a point there already
C7_Witness ==
    /\ lastAction.action = "decimal"
    /\ prev.hasValue /\ prev.pendingOperator = NoOperator
    /\ CountChar(displayValue, ".") = 1
    /\ displayValue[Len(displayValue)] # "."

\* C8: the second of two Decimal clicks in a row changes no field.
C8_DecimalIdempotent ==
    [][(lastAction.action = "decimal" /\ lastAction'.action = "decimal")
          => UNCHANGED fields]_vars

\* Decimal has been clicked twice in a row
C8_Witness ==
    lastAction.action = "decimal" /\ prev.repeated /\ CountChar(displayValue, ".") = 1

\* the fields after Operator('+') and then Operator('*') are clicked on s
PlusThenTimes(s) ==
    handleButtonClick(handleButtonClick(s, "operator", "+"), "operator", "*")

\* C9 as claimed: from every non-latched state, Operator('+') then Operator('*')
\* leaves '*' pending and the accumulated value as it was before the first click.
C9_AsClaimed ==
    ~hasError => /\ PlusThenTimes(This).pendingOperator = "*"
                 /\ PlusThenTimes(This).currentValue = currentValue

\* what the second click is compared with: s after Operator('+'), and the state
\* the two clicks started from
SubstitutesInto(first, two, s) ==
    IF first.hasError THEN two = ErrorFields
    ELSE /\ two = [first EXCEPT !.pendingOperator = "*"]
         /\ two.awaitingNextValue
         /\ (s.pendingOperator # NoOperator /\ s.awaitingNextValue)
               => two.currentValue = s.currentValue

\* C9 as amended: from every non-latched state, Operator('+') then Operator('*')
\* leaves '*' pending and the accumulated value as the first click left it (the
\* second click changes pendingOperator only), unless the first click divides by
\* zero, and then both leave the error state; the accumulated value is the one
\* from before both clicks when an operator was already pending and awaiting.
C9_SecondOperatorSubstitutes ==
    ~hasError => SubstitutesInto(handleButtonClick(This, "operator", "+"),
                                 PlusThenTimes(This), This)

\* Operator('*') has just been clicked right after Operator('+')
C9_Witness ==
    /\ lastAction = [action |-> "operator", value |-> "*"]
    /\ prev.repeated /\ prev.pendingOperator = "+" /\ prev.awaitingNextValue
    /\ pendingOperator = "*" /\ currentValue # null

\* the result Equals is about to show
PendingResult ==
    performCalculation(currentValue, parseFloat(displayValue), pendingOperator)

\* the fields after Digit('5'), Operator('+'), Digit('3') from the initial state
FivePlusThree ==
    handleButtonClick(
        handleButtonClick(
            handleButtonClick(InitialFields, "digit", "5"), "operator", "+"),
        "digit", "3")

\* C10: Equals on a non-latched state with an operator pending, an operand
\* entered and no division by zero shows formatResult of the calculation and
\* clears currentValue, pendingOperator and awaitingNextValue; after 5, +, 3 it
\* shows "8".
C10_EqualsFinalizes ==
    [][/\ (/\ ~hasError /\ pendingOperator # NoOperator /\ ~awaitingNextValue
           /\ PendingResult # null
           /\ lastAction'.action = "equals")
            => This' = Showing(formatResult(PendingResult))
       /\ (This = FivePlusThree /\ lastAction'.action = "equals")
            => displayValue' = <<"8">>]_vars

\* Equals has just finalized an addition that gives 8
C10_Witness ==
    /\ lastAction.action = "equals"
    /\ ~prev.hasError /\ prev.pendingOperator = "+" /\ ~prev.awaitingNextValue
    /\ This = Showing(<<"8">>)

\* the fields after one click of the button on s
Equals1(s) == handleButtonClick(s, "equals", "")

\* C11: Equals leaves all five fields unchanged when hasError holds, or no
\* operator is pending, or awaitingNextValue holds; and in every reachable state
\* two Equals clicks in a row give the fields one click gives.
C11_EqualsNoOp ==
    /\ (hasError \/ pendingOperator = NoOperator \/ awaitingNextValue)
          => Equals1(This) = This
    /\ Equals1(Equals1(This)) = Equals1(This)

\* Equals has been clicked twice in a row, the second time right after an
\* operator was staged and never given an operand
C11_Witness ==
    /\ lastAction.action = "equals" /\ prev.repeated
    /\ ~hasError /\ pendingOperator # NoOperator /\ awaitingNextValue

\* Equals has just been accepted: it finalized a pending operation without error
EqualsAccepted ==
    /\ lastAction.action = "equals"
    /\ ~prev.hasError /\ prev.pendingOperator # NoOperator /\ ~prev.awaitingNextValue
    /\ ~hasError

ChainedInto(s, op, result) ==
    [s EXCEPT !.currentValue = result, !.displayValue = formatResult(result),
              !.pendingOperator = op, !.awaitingNextValue = TRUE]

\* the fields after Digit('2'), Operator('+'), Digit('3') from the initial state
TwoPlusThree ==
    handleButtonClick(
        handleButtonClick(
            handleButtonClick(InitialFields, "digit", "2"), "operator", "+"),
        "digit", "3")

\* the fields after Operator('*'), Digit('4'), Equals are clicked on s
TimesFourEquals(s) ==
    handleButtonClick(
        handleButtonClick(
            handleButtonClick(s, "operator", "*"), "digit", "4"),
        "equals", "")

\* C13: Operator(op) on a non-latched state with an operator p pending, an
\* operand entered and no division by zero accumulates the result of p on the
\* accumulated value and the parsed display, shows formatResult of it, stages op
\* and sets awaitingNextValue; after 2, +, 3 the click of '*' shows "5" and
\* then 4, = shows "20".
C13_LeftToRightChaining ==
    /\ (/\ ~hasError /\ pendingOperator # NoOperator /\ ~awaitingNextValue
        /\ PendingResult # null)
          => \A op \in Operators :
                 handleButtonClick(This, "operator", op)
                     = ChainedInto(This, op, PendingResult)
    /\ This = TwoPlusThree
          => /\ handleButtonClick(This, "operator", "*").displayValue = <<"5">>
             /\ TimesFourEquals(This).displayValue = <<"2", "0">>

\* '*' has just been clicked on a pending addition that gives 5
C13_Witness ==
    /\ lastAction = [action |-> "operator", value |-> "*"]
    /\ ~prev.hasError /\ prev.pendingOperator = "+" /\ ~prev.awaitingNextValue
    /\ displayValue = <<"5">> /\ currentValue = <<5, 0>>
    /\ pendingOperator = "*" /\ awaitingNextValue

\* the hundredth part of what s displays
Hundredth(s) == Div(parseFloat(s.displayValue), <<1, -2>>)

\* a hundred times the number x
TimesHundred(x) == Norm(x[1], x[2] - 2)

\* after is s with r shown, and with r accumulated if s has no operator pending
PercentEffect(s, after, r) ==
    /\ after.displayValue = formatResult(r)
    /\ after.currentValue = IF s.pendingOperator = NoOperator THEN r ELSE s.currentValue
    /\ after.pendingOperator = s.pendingOperator
    /\ after.awaitingNextValue = s.awaitingNextValue
    /\ after.hasError = s.hasError
    /\ Fits(r) => TimesHundred(parseFloat(after.displayValue)) = parseFloat(s.displayValue)

\* the fields after Digit('5'), Digit('0') from the initial state
FiveZero ==
    handleButtonClick(handleButtonClick(InitialFields, "digit", "5"), "digit", "0")

\* C14: Percent on a non-latched state shows formatResult of the parsed display
\* divided by 100 (for the explored values, a text that parses to a hundredth of
\* what was shown),
\* accumulates that quotient if no operator is pending and leaves currentValue
\* alone otherwise; it never changes pendingOperator or awaitingNextValue; after
\* 5, 0 from the initial state it shows "0.5" with 0.5 accumulated.
C14_Percent ==
    /\ ~hasError => PercentEffect(This, handleButtonClick(This, "percent", ""),
                                  Hundredth(This))
    /\ hasError => handleButtonClick(This, "percent", "") = This
    /\ This = FiveZero
          => handleButtonClick(This, "percent", "")
                 = [Showing(<<"0", ".", "5">>) EXCEPT !.currentValue = <<5, 1>>]

\* Percent has just turned a bare 50 into 0.5
C14_Witness ==
    /\ lastAction.action = "percent"
    /\ ~prev.hasError /\ prev.pendingOperator = NoOperator /\ ~prev.hasValue
    /\ This = [Showing(<<"0", ".", "5">>) EXCEPT !.currentValue = <<5, 1>>]

\* after is s with only the display changed, to the text of the negated operand
\* (a text that parses to the opposite of what was shown)
SignEffect(s, after) ==
    /\ after = [s EXCEPT !.displayValue = formatResult(Neg(parseFloat(s.displayValue)))]
    /\ Fits(parseFloat(s.displayValue))
          => Add(parseFloat(after.displayValue), parseFloat(s.displayValue)) = <<0, 0>>

\* C15: ToggleSign leaves the five fields unchanged when hasError holds or the
\* display is exactly "0" (as in the initial state); otherwise it changes the
\* display only, to formatResult of the negated parsed display, and leaves
\* currentValue, pendingOperator and awaitingNextValue as they were.
C15_ToggleSign ==
    IF hasError \/ displayValue = <<"0">>
        THEN handleButtonClick(This, "toggleSign", "") = This
        ELSE SignEffect(This, handleButtonClick(This, "toggleSign", ""))

\* ToggleSign has just made the operand negative while a value and an operator
\* were staged
C15_Witness ==
    /\ lastAction.action = "toggleSign"
    /\ ~prev.hasError /\ prev.hasValue /\ prev.pendingOperator # NoOperator
    /\ currentValue # null /\ pendingOperator = prev.pendingOperator
    /\ Head(displayValue) = "-"

\* the fields after Percent is clicked on s
Percent1(s) == handleButtonClick(s, "percent", "")

\* the result of s's pending operator on s's accumulated value and operand
Evaluate(s, operand) == performCalculation(s.currentValue, operand, s.pendingOperator)

\* the fields that show result with nothing staged, the error fields for null
Finalized(result) ==
    IF result = null THEN ErrorFields ELSE Showing(formatResult(result))

\* C16 as claimed: from every non-latched state with an operator pending,
\* Percent and then Equals show formatResult of the pending operator applied to
\* the accumulated value and a hundredth of the parsed display, or leave the
\* error state when that divides by zero (stated of the results that are
\* explored values).
C16_AsClaimed ==
    (/\ ~hasError /\ pendingOperator # NoOperator
     /\ Evaluate(This, Hundredth(This)) = null \/ Fits(Evaluate(This, Hundredth(This))))
        => Equals1(Percent1(This)).displayValue
               = Finalized(Evaluate(This, Hundredth(This))).displayValue

\* two is what Equals makes of after, the fields Percent left from s
PercentThenEquals(s, after, two) ==
    IF s.awaitingNextValue
        THEN /\ two = after
             /\ two.displayValue = formatResult(Hundredth(s))
             /\ two.pendingOperator = s.pendingOperator
        ELSE /\ two = Finalized(Evaluate(s, parseFloat(after.displayValue)))
             /\ Fits(Hundredth(s))
                   => parseFloat(after.displayValue) = Hundredth(s)

\* C16 as amended: from every non-latched state with an operator pending and
\* awaitingNextValue false, Percent and then Equals show formatResult of the
\* pending operator applied to the accumulated value and the operand Percent
\* left on the display (the parsed formatResult of a hundredth of the parsed
\* display), with nothing staged, or leave the error state when that divides by
\* zero; with awaitingNextValue true, Equals changes nothing after Percent: the
\* display is formatResult of the hundredth and the operator stays pending.
C16_PercentThenEquals ==
    (~hasError /\ pendingOperator # NoOperator)
        => PercentThenEquals(This, Percent1(This), Equals1(Percent1(This)))

\* Percent has just rescaled an entered operand of a pending operator, and
\* Equals on it gives an explored value other than the one shown
C16_Witness ==
    /\ lastAction.action = "percent"
    /\ ~prev.hasError /\ prev.pendingOperator # NoOperator /\ ~prev.awaitingNextValue
    /\ ~hasError /\ pendingOperator # NoOperator /\ ~awaitingNextValue
    /\ InBounds(Equals1(This))
    /\ Equals1(This).displayValue # displayValue

\* C17: Operator(op) on a non-latched state that holds an accumulated value
\* with no operator pending (what Percent leaves of a bare number) drops that
\* value: currentValue becomes the parsed display, the display is unchanged, op
\* is pending and awaitingNextValue is true.
C17_BareValueDiscarded ==
    (~hasError /\ currentValue # null /\ pendingOperator = NoOperator)
        => \A op \in Operators :
               handleButtonClick(This, "operator", op)
                   = [This EXCEPT !.currentValue = parseFloat(displayValue),
                                  !.pendingOperator = op,
                                  !.awaitingNextValue = TRUE]

\* an operator has just been clicked on a value accumulated with no operator
C17_Witness ==
    /\ lastAction.action = "operator"
    /\ ~prev.hasError /\ prev.hasValue /\ prev.pendingOperator = NoOperator
    /\ currentValue = parseFloat(displayValue) /\ currentValue # <<0, 0>>
    /\ pendingOperator = lastAction.value /\ awaitingNextValue

\* C18: in every reachable state awaitingNextValue implies an operator is
\* pending, and a pending operator implies a value is accumulated.
C18_StagingNested ==
    /\ awaitingNextValue => pendingOperator # NoOperator
    /\ pendingOperator # NoOperator => currentValue # null

\* Equals has just finalized a staged operation: all three fields are clear
\* again, after two of them were set
C18_Witness ==
    /\ EqualsAccepted /\ prev.hasValue
    /\ ~awaitingNextValue /\ pendingOperator = NoOperator /\ currentValue = null

\* C19: in every reachable state the display is "Error" exactly when hasError.
C19_ErrorDisplay == (displayValue = ERROR_DISPLAY) <=> hasError

\* Equals has just raised the error
C19_Witness ==
    /\ lastAction.action = "equals" /\ ~prev.hasError
    /\ hasError /\ displayValue = ERROR_DISPLAY

\* after keeps s's accumulated value and operator and is neither awaiting nor latched
EntryFrame(s, after) ==
    /\ after.currentValue = s.currentValue
    /\ after.pendingOperator = s.pendingOperator
    /\ ~after.awaitingNextValue
    /\ ~after.hasError

\* C20: on a non-latched state Digit(d) and Decimal change neither currentValue
\* nor pendingOperator and leave awaitingNextValue and hasError false.
C20_EntryFrame ==
    ~hasError => /\ \A d \in Digits :
                        EntryFrame(This, handleButtonClick(This, "digit", d))
                 /\ EntryFrame(This, handleButtonClick(This, "decimal", ""))

\* Decimal has just started the operand of a staged operator
C20_Witness ==
    /\ lastAction.action = "decimal"
    /\ ~prev.hasError /\ prev.awaitingNextValue /\ prev.hasValue
    /\ currentValue # null /\ pendingOperator = prev.pendingOperator
    /\ ~awaitingNextValue /\ ~hasError /\ displayValue = <<"0", ".">>

====
